---- MODULE Spec2Model ----
(***************************************************************************)
(* The in-memory Item API of app/routes/items.py as a state machine.       *)
(*                                                                         *)
(* State: the module-level dict items_storage (an insertion-ordered        *)
(* mapping id -> Item), the wall clock read by datetime.utcnow(), the set  *)
(* of identifiers uuid4() has handed out, and the last HTTP response.      *)
(* Every route handler is one action; the request is drawn from a small    *)
(* set of inputs and the response is recorded in resp.                     *)
(*                                                                         *)
(* The clock is taken to be non-decreasing: a reading returns the previous *)
(* reading or a later one, so two readings may be equal.                   *)
(*                                                                         *)
(* Spec offers every request body with one list and one search request,    *)
(* SpecHistory is Spec with the history of the entities returned by POST,  *)
(* SpecQuery offers every list and search request over items that are      *)
(* created and updated without description.                                *)
(***************************************************************************)
EXTENDS Integers, Sequences, FiniteSets, TLC

(***************************************************************************)
(* Bounds of the model.                                                    *)
(***************************************************************************)
\* number of identifiers uuid4() can hand out, so of items ever created
MaxIds == 2
\* largest value the clock reaches; later reads return this value again
MaxTime == 1
\* largest page number requested
MaxPage == 2
\* largest page size requested
MaxSize == 2
\* number of requests in flight at a time
MaxTasks == 2

(***************************************************************************)
(* Program constants.                                                      *)
(***************************************************************************)
NAME_MIN_LENGTH == 1
NAME_MAX_LENGTH == 100
DESCRIPTION_MAX_LENGTH == 500
PAGE_GE == 1
SIZE_GE == 1
SIZE_LE == 100
Q_MIN_LENGTH == 1

(***************************************************************************)
(* Values.  A Python str is a sequence of one-character strings.  None and *)
(* "field absent from the JSON body" are two tokens that are no str.       *)
(***************************************************************************)
None == <<"None">>
Unset == <<"Unset">>
IsStr(v) == v # None /\ v # Unset

Ids == 1 .. MaxIds
\* the id field of a response to a request that names no item
NoId == MaxIds + 1

\* str.lower() on one character and on a str
LowerChar(c) ==
    CASE c = "A" -> "a"
      [] c = "B" -> "b"
      [] OTHER -> c
Lower(s) == [i \in 1 .. Len(s) |-> LowerChar(s[i])]

\* Python's  sub in s  on two strs
Contains(s, sub) ==
    \E i \in 0 .. (Len(s) - Len(sub)) :
        \A j \in 1 .. Len(sub) : s[i + j] = sub[j]

(***************************************************************************)
(* Request inputs.                                                         *)
(***************************************************************************)
NameAb == <<"A", "b">>
NameB == <<"b">>
DescD == <<"d">>

Body(name, description) == [name |-> name, description |-> description]

\* JSON bodies of POST /items/ : a minimal and a full valid body, a body
\* without name and one with an empty name
CreateBodies ==
    {Body(NameAb, Unset), Body(NameB, DescD), Body(Unset, DescD), Body(<<>>, Unset)}

\* JSON bodies of PUT /items/{id} : every field may be absent or null
UpdateBodies ==
    {Body(Unset, Unset), Body(NameB, Unset), Body(None, Unset),
     Body(Unset, DescD), Body(Unset, None), Body(NameAb, DescD),
     Body(<<>>, Unset)}

\* bodies that leave the description alone
NameOnly(bodies) == {b \in bodies : b.description = Unset}

Query(page, size) == [page |-> page, size |-> size]
SearchQuery(q, page, size) == [q |-> q, page |-> page, size |-> size]

\* page and size of GET /items/ : the valid ones up to the bounds, a page and
\* a size below the minimum and a size above the maximum
ListQueries ==
    {Query(p, z) : p \in 1 .. MaxPage, z \in 1 .. MaxSize}
        \cup {Query(0, 1), Query(1, 0), Query(1, SIZE_LE + 1)}

QInputs == {<<"a">>, <<"A">>, <<"B">>, <<"b", "a">>}
SearchQueries ==
    {SearchQuery(q, p, z) : q \in QInputs, p \in 1 .. MaxPage, z \in 1 .. MaxSize}
        \cup {SearchQuery(<<>>, 1, 1), SearchQuery(<<"a">>, 0, 1)}

VARIABLES
    \* Dict[UUID, Item]: the stored items in insertion order, each under its id
    items_storage,
    \* the last value datetime.utcnow() returned
    clock,
    \* the identifiers uuid4() has returned so far
    issued,
    \* history, kept by SpecHistory alone: for each item no PUT or DELETE has
    \* reached yet, the entity its POST returned
    created,
    \* history: the identifiers a DELETE answered 204 for
    deleted,
    \* the last request and the response it was given
    resp,
    \* utils/mongo.py: the module globals client and database
    client,
    database,
    \* the db_items collection of the document store: its documents in
    \* insertion order
    db_items,
    \* the last value datetime.utcnow() returned to a db_items handler
    db_clock,
    \* the ObjectIds handed out so far
    db_issued,
    \* the last response of a db_items handler, or the outcome of the last
    \* call of a function of utils/mongo.py
    db_resp,
    \* the requests in flight on the event loop, one coroutine each
    tasks,
    \* the coroutine the event loop is running, NoTask between two of them
    running,
    \* main.py: the life cycle of the application
    phase,
    \* whether the MongoDB server answers
    reachable,
    \* core/config.py: the names set in os.environ
    os_env,
    \* the .env file of the working directory and the one find_dotenv()
    \* finds in a directory above, each with the names it sets
    env_files,
    \* the settings instance: for every field the value it holds
    settings,
    \* the source label print_config_values printed for every field
    printed

mem_vars == <<items_storage, clock, issued, created, deleted, resp>>
db_vars == <<client, database, db_items, db_clock, db_issued, db_resp>>
loop_vars == <<tasks, running>>
config_vars == <<os_env, env_files, settings, printed>>
app_vars == <<phase, reachable, config_vars>>
vars == <<mem_vars, db_vars, loop_vars, app_vars>>

(***************************************************************************)
(* Validation done by the framework from the pydantic models and Query()   *)
(* declarations before a handler runs; a failure answers 422.              *)
(***************************************************************************)
\* variant: the name is declared without max_length
ValidNameRequiredNoMax(v) ==
    IsStr(v) /\ Len(v) >= NAME_MIN_LENGTH

\* ItemBase.name: required str, min_length=1, max_length=100
ValidNameRequired(v) ==
    IsStr(v) /\ Len(v) >= NAME_MIN_LENGTH /\ Len(v) <= NAME_MAX_LENGTH

\* Optional[str] with max_length=500, default None
ValidDescription(v) ==
    IsStr(v) => Len(v) <= DESCRIPTION_MAX_LENGTH

\* ItemUpdate.name: Optional[str], min_length=1, max_length=100, default None
ValidNameOptional(v) ==
    IsStr(v) => (Len(v) >= NAME_MIN_LENGTH /\ Len(v) <= NAME_MAX_LENGTH)

ValidItemCreate(b) == ValidNameRequired(b.name) /\ ValidDescription(b.description)
ValidItemUpdate(b) == ValidNameOptional(b.name) /\ ValidDescription(b.description)

\* page: ge=1 ; size: ge=1, le=100
ValidPaging(page, size) == page >= PAGE_GE /\ size >= SIZE_GE /\ size <= SIZE_LE
\* q: required, min_length=1
ValidQ(q) == Len(q) >= Q_MIN_LENGTH

\* ItemResponse(**item.dict()) validates the copy: name must be a str
ItemResponseOk(item) == ValidNameRequired(item.name) /\ ValidDescription(item.description)

(***************************************************************************)
(* The dict items_storage.                                                 *)
(***************************************************************************)
StoredIds(store) == {store[i].id : i \in 1 .. Len(store)}

\* position of key id
Pos(store, id) == CHOOSE i \in 1 .. Len(store) : store[i].id = id

\* items_storage[id]
Lookup(store, id) == store[Pos(store, id)]

\* items_storage[id] = item : a new key is appended, an existing key keeps
\* its position
StoreItem(store, id, item) ==
    IF id \in StoredIds(store)
    THEN [store EXCEPT ![Pos(store, id)] = item]
    ELSE Append(store, item)

\* variant: items_storage.popitem(), which drops the newest key
DelItemNewest(store, id) == SubSeq(store, 1, Len(store) - 1)

\* del items_storage[id]
DelItem(store, id) ==
    LET p == Pos(store, id)
    IN  [i \in 1 .. (Len(store) - 1) |-> IF i < p THEN store[i] ELSE store[i + 1]]

(***************************************************************************)
(* Responses.                                                              *)
(***************************************************************************)
NoBody == [none |-> TRUE]
NoReq == [none |-> TRUE]
Response(op, status, id, req, body) ==
    [op |-> op, status |-> status, id |-> id, req |-> req, body |-> body]

\* no coroutine is running
NoTask == {}

\* a request in flight: the handler's arguments, the place its coroutine has
\* reached, its local variables and, once it is done, the status answered
Task(op, id, body, pc, local, status) ==
    [op |-> op, id |-> id, body |-> body, pc |-> pc, local |-> local,
     status |-> status]

\* the connections the server accepts at a time, none with a request yet
Tasks == 1 .. MaxTasks
NoTasks == [t \in Tasks |-> Task("none", NoId, NoReq, "done", NoBody, 0)]

\* the states of an AsyncIOMotorClient and the database handle it gives
Open == <<"open">>
Closed == <<"closed">>
Handle == <<"database">>

\* the in-memory router has served nothing
InitMemory ==
    /\ items_storage = <<>>
    /\ clock = 0
    /\ issued = {}
    /\ created = {}
    /\ deleted = {}
    /\ resp = Response("start", 0, NoId, NoReq, NoBody)

\* utils/mongo.py is imported, the collection is empty
InitDb ==
    /\ client = None
    /\ database = None
    /\ db_items = <<>>
    /\ db_clock = 0
    /\ db_issued = {}
    /\ db_resp = Response("start", 0, NoId, NoReq, NoBody)

InitLoop ==
    /\ tasks = NoTasks
    /\ running = NoTask

\* fields of Settings; every field is read and labelled alike
Fields == {"ENVIRONMENT", "MONGO_HOST"}

\* a .env file: whether it exists and the names it sets
EnvFile(exists, keys) == [exists |-> exists, keys |-> keys]
NoEnvFile == EnvFile(FALSE, {})
EnvFiles == {NoEnvFile} \cup {EnvFile(TRUE, keys) : keys \in SUBSET Fields}

\* the value every source holds for a field is named after the source
NotLoaded == [f \in Fields |-> "unset"]
NotPrinted == [f \in Fields |-> ""]

\* core/config.py was imported in a bare environment: no variable set, no
\* .env file
InitConfigBare ==
    /\ os_env = {}
    /\ env_files = [cwd |-> NoEnvFile, parent |-> NoEnvFile]
    /\ settings = [f \in Fields |-> "default"]
    /\ printed = [f \in Fields |-> "[default]"]

Init ==
    /\ InitMemory
    /\ InitDb
    /\ InitLoop
    /\ phase = "created"
    /\ reachable = TRUE
    /\ InitConfigBare

(***************************************************************************)
(* POST /items/                                                            *)
(***************************************************************************)
\* variant: an identifier no stored item carries, which may be one a deleted
\* item carried
Uuid4NotStored ==
    {i \in Ids \ StoredIds(items_storage) :
        \A j \in Ids \ StoredIds(items_storage) : i <= j}

\* variant: id declared with default=uuid4(), which is evaluated once when
\* the class is defined, so every item carries the same identifier
Uuid4AtImport == {i \in Ids : \A j \in Ids : i <= j}

\* uuid4(): an identifier that was never handed out before.  The handlers
\* compare identifiers for equality only, so the model hands them out in one
\* fixed order; the set is empty once the identifier space is used up
Uuid4Choices == {i \in Ids \ issued : \A j \in Ids \ issued : i <= j}

\* variant: the default of an absent description is the empty str
DescriptionOfEmptyDefault(b) == IF b.description = Unset THEN <<>> ELSE b.description

\* pydantic copies the body's description; an absent one takes the default
DescriptionOf(b) == IF b.description = Unset THEN None ELSE b.description

create_item(item) ==
    IF ~ValidItemCreate(item)
    THEN /\ resp' = Response("create", 422, NoId, item, NoBody)
         /\ UNCHANGED <<items_storage, clock, issued, deleted>>
    ELSE \E id \in Uuid4Choices :
         \E t1 \in clock .. MaxTime :
         \E t2 \in t1 .. MaxTime :
            LET new_item == [id |-> id,
                             name |-> item.name,
                             description |-> DescriptionOf(item),
                             created_at |-> t1,
                             updated_at |-> t2]
            IN  /\ issued' = issued \cup {id}
                /\ clock' = t2
                /\ items_storage' = StoreItem(items_storage, id, new_item)
                /\ resp' = Response("create", 201, NoId, item, new_item)
                /\ UNCHANGED deleted

(***************************************************************************)
(* GET /items/ and GET /items/search/                                      *)
(***************************************************************************)
\* the place of x in a list already sorted by created_at descending, behind
\* every element whose created_at is not smaller (the sort is stable)
RECURSIVE InsertDesc(_, _)
InsertDesc(sorted, x) ==
    IF sorted = <<>> THEN <<x>>
    ELSE IF Head(sorted).created_at >= x.created_at
         THEN <<Head(sorted)>> \o InsertDesc(Tail(sorted), x)
         ELSE <<x>> \o sorted

\* variant: the sort without reverse=True is left out, the items stay in the
\* order of the dict
Unsorted(items) == items

\* sorted(items, key=lambda x: x.created_at, reverse=True)
RECURSIVE SortedByCreatedDesc(_)
SortedByCreatedDesc(items) ==
    IF items = <<>> THEN <<>>
    ELSE InsertDesc(SortedByCreatedDesc(SubSeq(items, 1, Len(items) - 1)),
                    items[Len(items)])

\* (total_count + size - 1) // size
TotalPages(total_count, size) == (total_count + size - 1) \div size

\* all_items[start_idx:end_idx] with 0-based, end-exclusive Python indices
Slice(items, start_idx, end_idx) ==
    SubSeq(items, start_idx + 1, IF end_idx < Len(items) THEN end_idx ELSE Len(items))

\* start_idx = (page - 1) * size ; end_idx = start_idx + size
PageSlice(items, page, size) ==
    Slice(items, (page - 1) * size, (page - 1) * size + size)

PaginatedItems(items, total_count, page, size, total_pages) ==
    [items |-> items, total_count |-> total_count, page |-> page,
     size |-> size, total_pages |-> total_pages]

\* the page the handlers build from the sorted list of selected items; the
\* ItemResponse copies are validated, a failure is answered 500
PageResponse(op, req, all_items) ==
    LET total_count == Len(all_items)
        paginated_items == PageSlice(all_items, req.page, req.size)
    IN  IF \A i \in 1 .. Len(paginated_items) : ItemResponseOk(paginated_items[i])
        THEN Response(op, 200, NoId, req,
                      PaginatedItems(paginated_items, total_count, req.page,
                                     req.size, TotalPages(total_count, req.size)))
        ELSE Response(op, 500, NoId, req, NoBody)

GetItemsResponse(store, req) ==
    IF ~ValidPaging(req.page, req.size)
    THEN Response("list", 422, NoId, req, NoBody)
    ELSE PageResponse("list", req, SortedByCreatedDesc(store))

get_items(req) ==
    /\ resp' = GetItemsResponse(items_storage, req)
    /\ UNCHANGED <<items_storage, clock, issued, deleted>>

\* q.lower() in item.name.lower()
NameMatches(q, name) == Contains(Lower(name), Lower(q))

\* [item for item in items_storage.values() if q.lower() in item.name.lower()]
MatchingItems(store, q) ==
    SelectSeq(store, LAMBDA item : NameMatches(q, item.name))

SearchItemsResponse(store, req) ==
    IF ~(ValidQ(req.q) /\ ValidPaging(req.page, req.size))
    THEN Response("search", 422, NoId, req, NoBody)
    ELSE IF \E i \in 1 .. Len(store) : ~IsStr(store[i].name)
         \* None has no lower(): AttributeError, caught and answered 500
         THEN Response("search", 500, NoId, req, NoBody)
         ELSE PageResponse("search", req,
                           SortedByCreatedDesc(MatchingItems(store, req.q)))

search_items(req) ==
    /\ resp' = SearchItemsResponse(items_storage, req)
    /\ UNCHANGED <<items_storage, clock, issued, deleted>>

(***************************************************************************)
(* GET /items/{item_id}                                                    *)
(***************************************************************************)
GetItemResponse(store, item_id) ==
    IF item_id \notin StoredIds(store)
    THEN Response("get", 404, item_id, NoReq, NoBody)
    ELSE IF ItemResponseOk(Lookup(store, item_id))
         THEN Response("get", 200, item_id, NoReq, Lookup(store, item_id))
         \* the ValidationError is not caught: the framework answers 500
         ELSE Response("get", 500, item_id, NoReq, NoBody)

get_item(item_id) ==
    /\ resp' = GetItemResponse(items_storage, item_id)
    /\ UNCHANGED <<items_storage, clock, issued, deleted>>

(***************************************************************************)
(* PUT /items/{item_id}                                                    *)
(***************************************************************************)
\* variant: item_update.dict() without exclude_unset, which names every field
UpdateDataAll(item_update) == {"name", "description"}

\* item_update.dict(exclude_unset=True): the fields the body supplied
UpdateData(item_update) ==
    {f \in {"name", "description"} : item_update[f] # Unset}

\* variant: item_update.dict() without exclude_unset, which hands every
\* field over, an absent one as None
SetFieldsAll(existing_item, item_update) ==
    [existing_item EXCEPT
        !.name = IF item_update.name = Unset THEN None ELSE item_update.name,
        !.description = IF item_update.description = Unset
                        THEN None ELSE item_update.description]

\* for field, value in update_data.items(): setattr(existing_item, field, value)
SetFields(existing_item, item_update) ==
    [existing_item EXCEPT
        !.name = IF "name" \in UpdateData(item_update)
                 THEN item_update.name ELSE @,
        !.description = IF "description" \in UpdateData(item_update)
                        THEN item_update.description ELSE @]

\* variant: the update stamps both timestamps
SetUpdatedAtAndCreatedAt(item, now) ==
    [item EXCEPT !.updated_at = now, !.created_at = now]

\* existing_item.updated_at = datetime.utcnow()
SetUpdatedAt(item, now) == [item EXCEPT !.updated_at = now]

\* variant: the body is tested for being empty before the item is looked up
UpdateRejectionEmptyFirst(store, item_id, item_update) ==
    IF UpdateData(item_update) = {} THEN 400
    ELSE IF item_id \notin StoredIds(store) THEN 404
    ELSE 0

\* the status of the HTTPException the handler raises before it changes
\* anything, 0 when it raises none: the item is looked up first, then the
\* body is tested for being empty
UpdateRejection(store, item_id, item_update) ==
    IF item_id \notin StoredIds(store) THEN 404
    ELSE IF UpdateData(item_update) = {} THEN 400
    ELSE 0

update_item(item_id, item_update) ==
    IF ~ValidItemUpdate(item_update)
    THEN /\ resp' = Response("update", 422, item_id, item_update, NoBody)
         /\ UNCHANGED <<items_storage, clock, issued, deleted>>
    ELSE IF UpdateRejection(items_storage, item_id, item_update) # 0
    THEN /\ resp' = Response("update",
                             UpdateRejection(items_storage, item_id, item_update),
                             item_id, item_update, NoBody)
         /\ UNCHANGED <<items_storage, clock, issued, deleted>>
    ELSE \E now \in clock .. MaxTime :
            LET existing_item ==
                    SetUpdatedAt(SetFields(Lookup(items_storage, item_id), item_update),
                                 now)
            IN  /\ clock' = now
                /\ items_storage' = StoreItem(items_storage, item_id, existing_item)
                \* the item is changed in place before the response copy is
                \* validated; a failure is caught and answered 500
                /\ resp' = IF ItemResponseOk(existing_item)
                           THEN Response("update", 200, item_id, item_update,
                                         existing_item)
                           ELSE Response("update", 500, item_id, item_update, NoBody)
                /\ UNCHANGED <<issued, deleted>>

(***************************************************************************)
(* DELETE /items/{item_id}                                                 *)
(***************************************************************************)
delete_item(item_id) ==
    IF item_id \notin StoredIds(items_storage)
    THEN /\ resp' = Response("delete", 404, item_id, NoReq, NoBody)
         /\ UNCHANGED <<items_storage, clock, issued, deleted>>
    ELSE /\ items_storage' = DelItem(items_storage, item_id)
         /\ resp' = Response("delete", 204, item_id, NoReq, NoBody)
         /\ deleted' = deleted \cup {item_id}
         /\ UNCHANGED <<clock, issued>>

(***************************************************************************)
(* The service: any request at any time.                                   *)
(***************************************************************************)
\* the history of the entities returned by POST: a 201 adds its entity, a PUT
\* or DELETE that reaches the item (200, 500 or 204) drops the item's entity
TrackCreated ==
    created' =
        IF resp'.op = "create" /\ resp'.status = 201
        THEN created \cup {resp'.body}
        ELSE IF resp'.op \in {"update", "delete"} /\ resp'.status \in {200, 500, 204}
             THEN {e \in created : e.id # resp'.id}
             ELSE created

\* the list and the search request of Spec and SpecHistory
OneList == {Query(1, MaxSize)}
OneSearch == {SearchQuery(<<"B">>, 1, MaxSize)}

\* a step of the in-memory router: nothing else changes
OthersUnchanged == UNCHANGED <<db_vars, loop_vars, app_vars>>
MemoryOnly == UNCHANGED created /\ OthersUnchanged

\* every body, one list and one search request
Next ==
    \/ \E item \in CreateBodies : create_item(item) /\ MemoryOnly
    \/ \E req \in OneList : get_items(req) /\ MemoryOnly
    \/ \E item_id \in Ids : get_item(item_id) /\ MemoryOnly
    \/ \E item_id \in Ids, item_update \in UpdateBodies :
            update_item(item_id, item_update) /\ MemoryOnly
    \/ \E item_id \in Ids : delete_item(item_id) /\ MemoryOnly
    \/ \E req \in OneSearch : search_items(req) /\ MemoryOnly

Spec == Init /\ [][Next]_vars

\* the same requests, with the history of the entities returned by POST
NextHistory ==
    \/ \E item \in CreateBodies : create_item(item) /\ TrackCreated /\ OthersUnchanged
    \/ \E req \in OneList : get_items(req) /\ TrackCreated /\ OthersUnchanged
    \/ \E item_id \in Ids : get_item(item_id) /\ TrackCreated /\ OthersUnchanged
    \/ \E item_id \in Ids, item_update \in UpdateBodies :
            update_item(item_id, item_update) /\ TrackCreated /\ OthersUnchanged
    \/ \E item_id \in Ids : delete_item(item_id) /\ TrackCreated /\ OthersUnchanged
    \/ \E req \in OneSearch : search_items(req) /\ TrackCreated /\ OthersUnchanged

SpecHistory == Init /\ [][NextHistory]_vars

\* every list and search request, over items without description
NextQuery ==
    \/ \E item \in NameOnly(CreateBodies) : create_item(item) /\ MemoryOnly
    \/ \E req \in ListQueries : get_items(req) /\ MemoryOnly
    \/ \E item_id \in Ids : get_item(item_id) /\ MemoryOnly
    \/ \E item_id \in Ids, item_update \in NameOnly(UpdateBodies) :
            update_item(item_id, item_update) /\ MemoryOnly
    \/ \E item_id \in Ids : delete_item(item_id) /\ MemoryOnly
    \/ \E req \in SearchQueries : search_items(req) /\ MemoryOnly

SpecQuery == Init /\ [][NextQuery]_vars

(***************************************************************************)
(* Properties of the handlers.                                             *)
(***************************************************************************)
\* the step just taken answered a request of kind op
Answered(op) == resp'.op = op

\* name of length 1..100, description absent, null or of length <= 500
IsValidCreateRequest(b) ==
    /\ IsStr(b.name)
    /\ Len(b.name) \in 1 .. 100
    /\ (IsStr(b.description) => Len(b.description) <= 500)

\* C1: a valid POST /items/ answers 201 with an entity that carries the
\* body's name and description (null when the description is omitted), an
\* id never handed out before and two timestamps read from the clock during
\* the request, and that entity is what the storage holds under the id.
C1_CreateReturnsInputAndStores ==
    [][(Answered("create") /\ IsValidCreateRequest(resp'.req)) =>
            LET e == resp'.body
                b == resp'.req
            IN  /\ resp'.status = 201
                /\ e.name = b.name
                /\ e.description = (IF b.description = Unset THEN None ELSE b.description)
                /\ e.id \in Ids \ issued
                /\ e.id \notin StoredIds(items_storage)
                /\ clock <= e.created_at
                /\ e.created_at <= e.updated_at
                /\ e.updated_at <= clock'
                /\ e.id \in StoredIds(items_storage')
                /\ Lookup(items_storage', e.id) = e
                /\ Len(items_storage') = Len(items_storage) + 1
      ]_vars

\* a create without description was answered 201 and its entity is stored
C1_Witness ==
    /\ resp.op = "create"
    /\ resp.status = 201
    /\ resp.req.description = Unset
    /\ resp.body.description = None
    /\ resp.body.id \in StoredIds(items_storage)

\* C2: a GET of an id whose item no PUT or DELETE has touched since its POST
\* answers 200 with the entity the POST returned, equal in every field,
\* whatever was done to other ids in between.
C2_GetReturnsCreatedEntity ==
    resp.op = "get" =>
        \A e \in created :
            e.id = resp.id =>
                /\ resp.status = 200
                /\ resp.body.id = e.id
                /\ resp.body.name = e.name
                /\ resp.body.description = e.description
                /\ resp.body.created_at = e.created_at
                /\ resp.body.updated_at = e.updated_at

\* an untouched item was read back after another item had been deleted
C2_Witness ==
    /\ resp.op = "get"
    /\ resp.status = 200
    /\ \E e \in created : e.id = resp.id
    /\ \E d \in deleted : d < resp.id

\* C3: a PUT that reaches the item (non-empty body, stored id) changes, of
\* the target, only the fields the body supplies and updated_at: id,
\* created_at and every field not supplied keep their values, a supplied
\* field takes the supplied value, and every other stored item is unchanged.
C3_UpdateChangesOnlySuppliedFields ==
    [][(Answered("update") /\ resp'.status \in {200, 500}) =>
            LET id == resp'.id
                b == resp'.req
                old == Lookup(items_storage, id)
                new == Lookup(items_storage', id)
            IN  /\ id \in StoredIds(items_storage)
                /\ Len(items_storage') = Len(items_storage)
                /\ \A i \in 1 .. Len(items_storage) :
                        items_storage[i].id # id => items_storage'[i] = items_storage[i]
                /\ new.id = old.id
                /\ new.created_at = old.created_at
                /\ new.name = (IF b.name = Unset THEN old.name ELSE b.name)
                /\ new.description =
                        (IF b.description = Unset THEN old.description ELSE b.description)
                /\ resp'.status = 200 => resp'.body = new
      ]_vars

\* a PUT of the name alone was answered 200 for an item that keeps its
\* description, next to another stored item
C3_Witness ==
    /\ resp.op = "update"
    /\ resp.status = 200
    /\ resp.req.name # Unset
    /\ resp.req.description = Unset
    /\ resp.body.description = DescD
    /\ Len(items_storage) >= 2

\* C4: every PUT answered 200 leaves the item with an updated_at strictly
\* greater than the one it had before.
C4_UpdateAdvancesUpdatedAtStrictly ==
    [][(Answered("update") /\ resp'.status = 200) =>
            Lookup(items_storage', resp'.id).updated_at
                > Lookup(items_storage, resp'.id).updated_at
      ]_vars

\* the step just taken answered a GET, PUT or DELETE of one item
AnsweredById == resp'.op \in {"get", "update", "delete"}

\* the PUT body the step just taken answered fails the ItemUpdate validation
\* (a name that is empty or too long, a description that is too long)
BodyFailsValidation ==
    /\ resp'.op = "update"
    /\ \/ IsStr(resp'.req.name) /\ Len(resp'.req.name) \notin 1 .. 100
       \/ IsStr(resp'.req.description) /\ Len(resp'.req.description) > 500

\* C5 as stated: once a DELETE of X was answered 204, every later GET, PUT
\* or DELETE of X answers 404 and X is never stored again.
C5_DeletedStaysNotFound ==
    [][/\ deleted' \cap StoredIds(items_storage') = {}
       /\ (AnsweredById /\ resp'.id \in deleted) => resp'.status = 404
      ]_vars

\* C5 amended: once a DELETE of X was answered 204, X is never stored again,
\* every later GET or DELETE of X answers 404, and every later PUT of X
\* answers 404 unless its body fails validation, which answers 422.
C5_DeletedStaysNotFoundUnlessInvalidBody ==
    [][/\ deleted' \cap StoredIds(items_storage') = {}
       /\ (AnsweredById /\ resp'.id \in deleted) =>
              IF BodyFailsValidation THEN resp'.status = 422 ELSE resp'.status = 404
      ]_vars

\* a deleted id was asked for again and answered 404 after a later create
C5_Witness ==
    /\ resp.op \in {"get", "update", "delete"}
    /\ resp.id \in deleted
    /\ resp.status = 404
    /\ \E i \in 1 .. Len(items_storage) : items_storage[i].id > resp.id

C7_EmptyUpdateAnswers400 ==
    [][(/\ Answered("update")
        /\ resp'.id \in StoredIds(items_storage)
        /\ resp'.req = Body(Unset, Unset)) =>
            /\ resp'.status = 400
            /\ items_storage' = items_storage
            /\ Lookup(items_storage', resp'.id) = Lookup(items_storage, resp'.id)
      ]_vars

\* a PUT with an empty body for a stored id was answered 400
C7_Witness ==
    /\ resp.op = "update"
    /\ resp.status = 400
    /\ resp.req = Body(Unset, Unset)
    /\ resp.id \in StoredIds(items_storage)

(***************************************************************************)
(* Properties of list and search.  The state after a GET /items/ or a GET  *)
(* /items/search/ holds the response and the storage it was computed from, *)
(* so the other pages of the same request over the unchanged storage are   *)
(* what the handler answers for them in this state.                        *)
(***************************************************************************)
\* the last request was a list or a search within page >= 1, 1 <= size <= 100
\* and, for a search, a non-empty q
IsPagedRequest ==
    /\ resp.op \in {"list", "search"}
    /\ resp.req.page >= 1
    /\ resp.req.size >= 1
    /\ resp.req.size <= 100
    /\ resp.op = "search" => Len(resp.req.q) >= 1

\* the response to the last request asked again for page p
PageAgain(p) ==
    IF resp.op = "list"
    THEN GetItemsResponse(items_storage, [resp.req EXCEPT !.page = p])
    ELSE SearchItemsResponse(items_storage, [resp.req EXCEPT !.page = p])

\* the two characters are the same letter, whatever their case
SameLetter(c, d) ==
    \/ c = d
    \/ {c, d} = {"a", "A"}
    \/ {c, d} = {"b", "B"}

\* name is a str that contains q as a substring when case is ignored
ContainsIgnoringCase(name, q) ==
    /\ IsStr(name)
    /\ \E k \in 0 .. (Len(name) - Len(q)) :
            \A j \in 1 .. Len(q) : SameLetter(name[k + j], q[j])

\* the stored items the last request selects: all of them for a list, those
\* whose name contains q for a search
Selected ==
    {i \in 1 .. Len(items_storage) :
        resp.op = "search" => ContainsIgnoringCase(items_storage[i].name, resp.req.q)}

CeilDiv(n, d) == CHOOSE k \in 0 .. n : k * d >= n /\ (k - 1) * d < n
Min(a, b) == IF a < b THEN a ELSE b
Max(a, b) == IF a > b THEN a ELSE b

RECURSIVE ConcatPages(_)
\* the items of pages 1 .. n of the last request, one page after the other;
\* a page that is not answered 200 makes the result differ from every list
ConcatPages(n) ==
    IF n = 0 THEN <<>>
    ELSE IF PageAgain(n).status = 200
         THEN ConcatPages(n - 1) \o PageAgain(n).body.items
         ELSE <<"no page">>

\* seq holds every selected item exactly once and nothing else
HoldsSelectedOnce(seq) ==
    /\ Len(seq) = Cardinality(Selected)
    /\ \A i \in Selected : \E k \in 1 .. Len(seq) : seq[k] = items_storage[i]

\* what C8 says of a paged request with N selected items and page size S
PaginationAsClaimed ==
    LET N == Cardinality(Selected)
        S == resp.req.size
        p == resp.req.page
    IN  /\ resp.status = 200
        /\ resp.body.total_count = N
        /\ resp.body.total_pages = CeilDiv(N, S)
        /\ Len(resp.body.items) = Min(S, Max(0, N - S * (p - 1)))
        /\ HoldsSelectedOnce(ConcatPages(CeilDiv(N, S)))

\* C8: over an unchanged storage with N selected items and page size S, every
\* page of a list or search reports total_count = N and total_pages =
\* ceil(N/S), page p holds min(S, max(0, N - S*(p-1))) items (a page past the
\* last is an empty 200 response), and pages 1..total_pages together hold
\* every selected item exactly once.
C8_PaginationCoversEveryItemOnce ==
    IsPagedRequest => PaginationAsClaimed

\* the same, over storages in which every name is a str
PaginationOverStrNames ==
    (IsPagedRequest /\ \A i \in 1 .. Len(items_storage) : IsStr(items_storage[i].name))
        => PaginationAsClaimed

\* C9: every list and search response is ordered by created_at descending:
\* no item of a page is older than the item after it, and no item of a page
\* is older than any item of the next page.
C9_ResponsesOrderedByCreatedAtDescending ==
    (resp.op \in {"list", "search"} /\ resp.status = 200) =>
        LET page == resp.body.items
            next == PageAgain(resp.req.page + 1)
        IN  /\ \A k \in 1 .. (Len(page) - 1) :
                    page[k].created_at >= page[k + 1].created_at
            /\ next.status = 200 =>
                    \A k \in 1 .. Len(page), m \in 1 .. Len(next.body.items) :
                        page[k].created_at >= next.body.items[m].created_at

\* a page was answered whose item is newer than the item of the next page
C9_Witness ==
    /\ resp.op \in {"list", "search"}
    /\ resp.status = 200
    /\ Len(resp.body.items) >= 1
    /\ PageAgain(resp.req.page + 1).status = 200
    /\ \E m \in 1 .. Len(PageAgain(resp.req.page + 1).body.items) :
            resp.body.items[1].created_at
                > PageAgain(resp.req.page + 1).body.items[m].created_at

\* the query with the case of every letter swapped
SwapCase(q) ==
    [j \in 1 .. Len(q) |->
        CASE q[j] = "a" -> "A"
          [] q[j] = "A" -> "a"
          [] q[j] = "b" -> "B"
          [] q[j] = "B" -> "b"
          [] OTHER -> q[j]]

\* C10: a search answers 200 with total_count equal to the number of stored
\* items whose name contains q when case is ignored, its pages together hold
\* exactly these items, and the query in the other letter case is answered
\* with the same items and counts.
C10_SearchReturnsExactlyTheMatches ==
    (IsPagedRequest /\ resp.op = "search") =>
        LET other == SearchItemsResponse(items_storage,
                                         [resp.req EXCEPT !.q = SwapCase(resp.req.q)])
        IN  /\ resp.status = 200
            /\ resp.body.total_count = Cardinality(Selected)
            /\ \A k \in 1 .. Len(resp.body.items) :
                    ContainsIgnoringCase(resp.body.items[k].name, resp.req.q)
            /\ HoldsSelectedOnce(ConcatPages(resp.body.total_pages))
            /\ other.status = 200
            /\ other.body.items = resp.body.items
            /\ other.body.total_count = resp.body.total_count

\* the same, over storages in which every name is a str
SearchOverStrNames ==
    (\E i \in 1 .. Len(items_storage) : ~IsStr(items_storage[i].name))
        \/ C10_SearchReturnsExactlyTheMatches

(***************************************************************************)
(* Invariants of the stored items.                                         *)
(***************************************************************************)
\* what ItemBase declares of an item: a str name of length 1..100 and a
\* description that is null or a str of length <= 500
IsWellFormedItem(item) ==
    /\ IsStr(item.name)
    /\ Len(item.name) \in 1 .. 100
    /\ \/ item.description = None
       \/ IsStr(item.description) /\ Len(item.description) <= 500

\* C11: in every reachable state every stored item has a name that is a str
\* of length 1..100 and a description that is null or a str of length <= 500.
C11_StoredItemsAreWellFormed ==
    \A i \in 1 .. Len(items_storage) : IsWellFormedItem(items_storage[i])

C13_CreateNeverReusesAnId ==
    [][(Answered("create") /\ resp'.status = 201) =>
            LET id == resp'.body.id
            IN  /\ id \notin issued
                /\ id \notin StoredIds(items_storage)
                /\ id \notin deleted
                /\ issued' = issued \cup {id}
                /\ Len(items_storage') = Len(items_storage) + 1
                /\ \A i \in 1 .. Len(items_storage) :
                        items_storage'[i] = items_storage[i]
                /\ items_storage'[Len(items_storage')].id = id
      ]_vars

\* a POST was answered 201 after an item had been deleted
C13_Witness ==
    /\ resp.op = "create"
    /\ resp.status = 201
    /\ deleted # {}
    /\ resp.body.id \notin deleted
    /\ resp.body.id \in StoredIds(items_storage)

(***************************************************************************)
(* Requests at the limits of validation.  A query parameter that the       *)
(* request leaves out takes the default its Query() declares.              *)
(***************************************************************************)
PAGE_DEFAULT == 1
SIZE_DEFAULT == 10

\* an integer query parameter as the request carries it: absent or given
NoParam == <<>>
Param(n) == <<n>>

\* Python's  c * n  on a one-character str
Repeat(c, n) == [i \in 1 .. n |-> c]

\* bodies of POST /items/ around the limits: name absent, null, empty, of
\* the largest length and one longer; description of the largest length and
\* one longer, under a name of one character
LimitCreateBodies ==
    {Body(Unset, DescD), Body(None, Unset), Body(<<>>, Unset),
     Body(Repeat("x", NAME_MAX_LENGTH), Repeat("x", DESCRIPTION_MAX_LENGTH)),
     Body(Repeat("x", NAME_MAX_LENGTH + 1), Unset),
     Body(NameB, Repeat("x", DESCRIPTION_MAX_LENGTH + 1))}

\* query strings of GET /items/ : page and size absent, at and around the
\* limits
LimitListParams ==
    {Query(p, z) : p \in {NoParam, Param(0), Param(1)},
                   z \in {NoParam, Param(0), Param(SIZE_LE), Param(SIZE_LE + 1)}}

\* query strings of GET /items/search/ : q absent, empty or given alone,
\* and q given with a page or a size at and around the limits
LimitSearchParams ==
    {SearchQuery(q, NoParam, NoParam) : q \in {Unset, <<>>, <<"x">>}}
        \cup {SearchQuery(<<"x">>, Param(0), NoParam),
              SearchQuery(<<"x">>, NoParam, Param(0)),
              SearchQuery(<<"x">>, Param(1), Param(SIZE_LE)),
              SearchQuery(<<"x">>, NoParam, Param(SIZE_LE + 1))}

\* the body of PUT /items/{id} that sets the name to null
NullNameBodies == {Body(None, Unset)}

\* the value a declared parameter is bound to
ParamOr(v, default) == IF v = NoParam THEN default ELSE v[1]

\* variant: an absent size is bound to the largest size
BoundQueryLargestSize(params) ==
    Query(ParamOr(params.page, PAGE_DEFAULT), ParamOr(params.size, SIZE_LE))

\* page: int = Query(1, ...), size: int = Query(10, ...)
BoundQuery(params) ==
    Query(ParamOr(params.page, PAGE_DEFAULT), ParamOr(params.size, SIZE_DEFAULT))

\* GET /items/ with a query string; the request is recorded as it was sent
GetItemsRequestResponse(store, params) ==
    [GetItemsResponse(store, BoundQuery(params)) EXCEPT !.req = params]

get_items_request(params) ==
    /\ resp' = GetItemsRequestResponse(items_storage, params)
    /\ UNCHANGED <<items_storage, clock, issued, deleted>>

\* GET /items/search/ with a query string: q = Query(...) is required
SearchItemsRequestResponse(store, params) ==
    IF params.q = Unset
    THEN Response("search", 422, NoId, params, NoBody)
    ELSE [SearchItemsResponse(store,
                              SearchQuery(params.q, BoundQuery(params).page,
                                          BoundQuery(params).size))
            EXCEPT !.req = params]

search_items_request(params) ==
    /\ resp' = SearchItemsRequestResponse(items_storage, params)
    /\ UNCHANGED <<items_storage, clock, issued, deleted>>

\* requests at the limits
NextLimits ==
    \/ \E item \in LimitCreateBodies : create_item(item) /\ MemoryOnly
    \/ \E params \in LimitListParams : get_items_request(params) /\ MemoryOnly
    \/ \E item_id \in Ids, item_update \in NullNameBodies :
            update_item(item_id, item_update) /\ MemoryOnly
    \/ \E item_id \in Ids : delete_item(item_id) /\ MemoryOnly
    \/ \E params \in LimitSearchParams :
            search_items_request(params) /\ MemoryOnly

SpecLimits == Init /\ [][NextLimits]_vars

\* C14: a POST whose name is absent, null, empty or longer than 100
\* characters, or whose description is longer than 500 characters, answers
\* 422 and leaves the storage, the clock and the identifiers handed out as
\* they were; a POST within these limits is not answered 422.
C14_InvalidCreateAnswers422 ==
    [][Answered("create") =>
            LET b == resp'.req
                bad == \/ ~IsStr(b.name)
                       \/ Len(b.name) = 0
                       \/ Len(b.name) > 100
                       \/ IsStr(b.description) /\ Len(b.description) > 500
            IN  /\ bad => /\ resp'.status = 422
                          /\ resp'.body = NoBody
                          /\ items_storage' = items_storage
                          /\ issued' = issued
                          /\ clock' = clock
                /\ ~bad => resp'.status = 201
      ]_vars

\* a POST with a description of 501 characters was answered 422 while an
\* item with a name of 100 characters is stored
C14_Witness ==
    /\ resp.op = "create"
    /\ resp.status = 422
    /\ IsStr(resp.req.description)
    /\ Len(resp.req.description) = 501
    /\ \E i \in 1 .. Len(items_storage) : Len(items_storage[i].name) = 100

\* page absent or >= 1, size absent or in 1..100, and for a search q given
\* and not empty
IsWithinQueryLimits(op, params) ==
    /\ params.page = NoParam \/ params.page[1] >= 1
    /\ params.size = NoParam \/ (params.size[1] >= 1 /\ params.size[1] <= 100)
    /\ op = "search" => (params.q # Unset /\ Len(params.q) >= 1)

\* C15: a list or search request is answered 422 exactly when its page is
\* below 1, its size is outside 1..100 or, for a search, q is absent or
\* empty; the 422 is the same whatever the storage holds, no list or search
\* request changes the storage, and an answered page reports page 1 and size
\* 10 for the parameters the request left out.
C15_QueryLimitsAnswer422 ==
    [][(Answered("list") \/ Answered("search")) =>
            LET params == resp'.req
                within == IsWithinQueryLimits(resp'.op, params)
            IN  /\ within <=> resp'.status # 422
                /\ ~within =>
                        resp' = IF resp'.op = "list"
                                THEN GetItemsRequestResponse(<<>>, params)
                                ELSE SearchItemsRequestResponse(<<>>, params)
                /\ items_storage' = items_storage
                /\ resp'.status = 200 =>
                        /\ resp'.body.page =
                                (IF params.page = NoParam THEN 1 ELSE params.page[1])
                        /\ resp'.body.size =
                                (IF params.size = NoParam THEN 10 ELSE params.size[1])
      ]_vars

\* a search with q given and a size of 101 was answered 422 over a storage
\* that holds an item
C15_Witness ==
    /\ resp.op = "search"
    /\ resp.status = 422
    /\ IsStr(resp.req.q)
    /\ resp.req.size = Param(101)
    /\ Len(items_storage) >= 1

(***************************************************************************)
(* utils/mongo.py: the connection held in the module globals client and    *)
(* database.                                                               *)
(***************************************************************************)
\* what creating the client and the ping can end in: success, or one of the
\* exceptions connect_to_mongo catches (OperationFailure stands for every
\* other exception of the ping, InvalidURI for one raised by the constructor)
PingOutcomes ==
    {"ok", "ConnectionFailure", "ServerSelectionTimeoutError", "OperationFailure",
     "InvalidURI"}

\* the outcome of a call of a function of utils/mongo.py: what it raised
\* ("" when it returned) and what it returned
CallOutcome(call, raised, returned) ==
    Response(call, 0, NoId, NoReq, [raised |-> raised, returned |-> returned])

\* variant: the database handle is taken from the client before the ping
ConnectDatabaseBeforePing(ping) ==
    IF ping = "InvalidURI" THEN database ELSE Handle

\* database after connect_to_mongo: set once the ping has answered
ConnectDatabase(ping) ==
    IF ping = "ok" THEN Handle ELSE database

connect_to_mongo(ping) ==
    \* the constructor opens no connection; when it raises, client is not
    \* assigned
    /\ client' = IF ping = "InvalidURI" THEN client ELSE Open
    /\ database' = ConnectDatabase(ping)
    \* every except clause re-raises
    /\ db_resp' = CallOutcome("connect_to_mongo",
                              IF ping = "ok" THEN "" ELSE ping, None)
    /\ UNCHANGED <<db_items, db_clock, db_issued>>

close_mongo_connection ==
    \* if client: client.close() ; neither global is reset
    /\ client' = IF client = None THEN None ELSE Closed
    /\ db_resp' = CallOutcome("close_mongo_connection", "", None)
    /\ UNCHANGED <<database, db_items, db_clock, db_issued>>

\* what get_database() raises, "" when it returns the handle
GetDatabaseRaises == IF database = None THEN "RuntimeError" ELSE ""

get_database ==
    /\ db_resp' = CallOutcome("get_database", GetDatabaseRaises,
                              IF GetDatabaseRaises = "" THEN database ELSE None)
    /\ UNCHANGED <<client, database, db_items, db_clock, db_issued>>

\* get_collection(name) calls get_database() and indexes its result
get_collection ==
    /\ db_resp' = CallOutcome("get_collection", GetDatabaseRaises,
                              IF GetDatabaseRaises = "" THEN database ELSE None)
    /\ UNCHANGED <<client, database, db_items, db_clock, db_issued>>

\* a handler's database work fails: get_collection raises RuntimeError, or
\* the operation raises because the client was closed; the handlers answer
\* 500 for either
BackendFails == GetDatabaseRaises # "" \/ client = Closed

(***************************************************************************)
(* routes/db_items.py: the document-store router, one request at a time.   *)
(* A document carries the fields of an item; its _id is an ObjectId the    *)
(* insert assigns.                                                         *)
(***************************************************************************)
\* a path segment that parses neither as a UUID nor as an ObjectId
BadId == NoId + 1
PathIds == Ids \cup {BadId}

\* ObjectId(item_id) returns; otherwise it raises InvalidId
IsObjectId(item_id) == item_id \in Ids

\* the _id insert_one assigns: one never assigned before
ObjectIdChoices == {i \in Ids \ db_issued : \A j \in Ids \ db_issued : i <= j}

\* DBItemCreate and DBItemUpdate declare the fields as ItemCreate and
\* ItemUpdate do; DBItemResponse validates name and description as
\* ItemResponse does
ValidDBItemCreate(b) == ValidNameRequired(b.name) /\ ValidDescription(b.description)
ValidDBItemUpdate(b) == ValidNameOptional(b.name) /\ ValidDescription(b.description)
DBItemResponseOk(doc) ==
    ValidNameRequired(doc.name) /\ ValidDescription(doc.description)

create_db_item(item) ==
    IF ~ValidDBItemCreate(item)
    THEN /\ db_resp' = Response("create", 422, NoId, item, NoBody)
         /\ UNCHANGED <<client, database, db_items, db_clock, db_issued>>
    ELSE IF BackendFails
    THEN /\ db_resp' = Response("create", 500, NoId, item, NoBody)
         /\ UNCHANGED <<client, database, db_items, db_clock, db_issued>>
    ELSE \E id \in ObjectIdChoices :
         \E t1 \in db_clock .. MaxTime :
         \E t2 \in t1 .. MaxTime :
            LET inserted_item == [id |-> id,
                                  name |-> item.name,
                                  description |-> DescriptionOf(item),
                                  created_at |-> t1,
                                  updated_at |-> t2]
            IN  /\ db_issued' = db_issued \cup {id}
                /\ db_clock' = t2
                /\ db_items' = Append(db_items, inserted_item)
                /\ db_resp' = Response("create", 201, NoId, item, inserted_item)
                /\ UNCHANGED <<client, database>>

\* the orders find({}).sort("created_at", -1) may return documents in: the
\* store leaves the order of documents with equal created_at open
SortedOrders(docs) ==
    {[i \in 1 .. Len(docs) |-> docs[p[i]]] :
        p \in {q \in [1 .. Len(docs) -> 1 .. Len(docs)] :
                /\ \A i, j \in 1 .. Len(docs) : q[i] = q[j] => i = j
                /\ \A i, j \in 1 .. Len(docs) :
                        i < j => docs[q[i]].created_at >= docs[q[j]].created_at}}

\* cursor.skip(skip).limit(size) with skip = (page - 1) * size
SkipLimit(docs, page, size) == Slice(docs, (page - 1) * size, (page - 1) * size + size)

\* the page built from the documents the query selects, sorted; the
\* DBItemResponse copies are validated, a failure is answered 500
DbPageResponse(op, req, sorted) ==
    LET total_count == Len(sorted)
        items == SkipLimit(sorted, req.page, req.size)
    IN  IF \A i \in 1 .. Len(items) : DBItemResponseOk(items[i])
        THEN Response(op, 200, NoId, req,
                      PaginatedItems(items, total_count, req.page, req.size,
                                     (total_count + req.size - 1) \div req.size))
        ELSE Response(op, 500, NoId, req, NoBody)

get_db_items(req) ==
    /\ IF ~ValidPaging(req.page, req.size)
       THEN db_resp' = Response("list", 422, NoId, req, NoBody)
       ELSE IF BackendFails
       THEN db_resp' = Response("list", 500, NoId, req, NoBody)
       ELSE \E sorted \in SortedOrders(db_items) :
                db_resp' = DbPageResponse("list", req, sorted)
    /\ UNCHANGED <<client, database, db_items, db_clock, db_issued>>

\* whether the regular expression q, with option i, matches at some place
\* of name: a dot stands for any character, every other character of the
\* inputs for itself in either letter case
RegexMatches(q, name) ==
    \E i \in 0 .. (Len(name) - Len(q)) :
        \A j \in 1 .. Len(q) :
            q[j] = "." \/ LowerChar(q[j]) = LowerChar(name[i + j])

\* {"name": {"$regex": q, "$options": "i"}} : a name that is no string is
\* not matched
RegexSelected(docs, q) ==
    SelectSeq(docs, LAMBDA doc : IsStr(doc.name) /\ RegexMatches(q, doc.name))

search_db_items(req) ==
    /\ IF ~(ValidQ(req.q) /\ ValidPaging(req.page, req.size))
       THEN db_resp' = Response("search", 422, NoId, req, NoBody)
       ELSE IF BackendFails
       THEN db_resp' = Response("search", 500, NoId, req, NoBody)
       ELSE \E sorted \in SortedOrders(RegexSelected(db_items, req.q)) :
                db_resp' = DbPageResponse("search", req, sorted)
    /\ UNCHANGED <<client, database, db_items, db_clock, db_issued>>

GetDbItemResponse(docs, item_id) ==
    IF ~IsObjectId(item_id) THEN Response("get", 400, item_id, NoReq, NoBody)
    ELSE IF BackendFails THEN Response("get", 500, item_id, NoReq, NoBody)
    ELSE IF item_id \notin StoredIds(docs)
    THEN Response("get", 404, item_id, NoReq, NoBody)
    ELSE IF DBItemResponseOk(Lookup(docs, item_id))
         THEN Response("get", 200, item_id, NoReq, Lookup(docs, item_id))
         ELSE Response("get", 500, item_id, NoReq, NoBody)

get_db_item(item_id) ==
    /\ db_resp' = GetDbItemResponse(db_items, item_id)
    /\ UNCHANGED <<client, database, db_items, db_clock, db_issued>>

\* the status update_db_item answers before it writes, 0 when it goes on
UpdateDbRejection(docs, item_id, item_update) ==
    IF ~IsObjectId(item_id) THEN 400
    ELSE IF BackendFails THEN 500
    ELSE IF item_id \notin StoredIds(docs) THEN 404
    ELSE IF UpdateData(item_update) = {} THEN 400
    ELSE 0

\* update_one({"_id": object_id}, {"$set": update_data}) on the document
SetDocument(doc, item_update, now) ==
    [SetFields(doc, item_update) EXCEPT !.updated_at = now]

update_db_item(item_id, item_update) ==
    IF ~ValidDBItemUpdate(item_update)
    THEN /\ db_resp' = Response("update", 422, item_id, item_update, NoBody)
         /\ UNCHANGED <<client, database, db_items, db_clock, db_issued>>
    ELSE IF UpdateDbRejection(db_items, item_id, item_update) # 0
    THEN /\ db_resp' = Response("update",
                                UpdateDbRejection(db_items, item_id, item_update),
                                item_id, item_update, NoBody)
         /\ UNCHANGED <<client, database, db_items, db_clock, db_issued>>
    ELSE \E now \in db_clock .. MaxTime :
            LET existing_item == Lookup(db_items, item_id)
                updated_item == SetDocument(existing_item, item_update, now)
                \* the store counts a document as modified when a value changed
                modified_count == IF updated_item = existing_item THEN 0 ELSE 1
            IN  /\ db_clock' = now
                /\ db_items' = StoreItem(db_items, item_id, updated_item)
                /\ db_resp' =
                        IF modified_count = 0
                        THEN Response("update", 500, item_id, item_update, NoBody)
                        ELSE IF DBItemResponseOk(updated_item)
                        THEN Response("update", 200, item_id, item_update,
                                      updated_item)
                        ELSE Response("update", 500, item_id, item_update, NoBody)
                /\ UNCHANGED <<client, database, db_issued>>

delete_db_item(item_id) ==
    IF ~IsObjectId(item_id)
    THEN /\ db_resp' = Response("delete", 400, item_id, NoReq, NoBody)
         /\ UNCHANGED <<client, database, db_items, db_clock, db_issued>>
    ELSE IF BackendFails
    THEN /\ db_resp' = Response("delete", 500, item_id, NoReq, NoBody)
         /\ UNCHANGED <<client, database, db_items, db_clock, db_issued>>
    ELSE IF item_id \notin StoredIds(db_items)
    THEN /\ db_resp' = Response("delete", 404, item_id, NoReq, NoBody)
         /\ UNCHANGED <<client, database, db_items, db_clock, db_issued>>
    ELSE /\ db_items' = DelItem(db_items, item_id)
         /\ db_resp' = Response("delete", 204, item_id, NoReq, NoBody)
         /\ UNCHANGED <<client, database, db_clock, db_issued>>

(***************************************************************************)
(* The two routers side by side: every request is sent to both, after the  *)
(* document store was connected, and both read the same clock.             *)
(***************************************************************************)
\* item_id: UUID : a path segment that is no UUID fails validation
IsUuid(item_id) == item_id \in Ids

\* the framework's answer when the path fails validation
InvalidPath(op, item_id, req) ==
    /\ resp' = Response(op, 422, item_id, req, NoBody)
    /\ UNCHANGED <<items_storage, clock, issued, deleted>>

get_item_request(item_id) ==
    IF IsUuid(item_id) THEN get_item(item_id)
    ELSE InvalidPath("get", item_id, NoReq)

update_item_request(item_id, item_update) ==
    IF IsUuid(item_id) THEN update_item(item_id, item_update)
    ELSE InvalidPath("update", item_id, item_update)

delete_item_request(item_id) ==
    IF IsUuid(item_id) THEN delete_item(item_id)
    ELSE InvalidPath("delete", item_id, NoReq)

\* bodies of POST: a valid one and one that fails validation
BothCreateBodies == {Body(NameAb, Unset), Body(<<>>, Unset)}
\* bodies of PUT: empty, the name the item was created with, a null name
BothUpdateBodies == {Body(Unset, Unset), Body(NameAb, Unset), Body(None, Unset)}
\* a search for a letter and one for a dot
BothSearches == {SearchQuery(<<"B">>, 1, MaxSize), SearchQuery(<<".">>, 1, MaxSize)}

\* the document store is connected and was never closed
Connected == database # None /\ client = Open

\* both handlers of a step read the same clock: the readings they leave
\* behind are equal, and so are the timestamps of the item they wrote
SameClock ==
    /\ db_clock' = clock'
    /\ \A i \in Ids :
            (i \in StoredIds(items_storage') /\ i \in StoredIds(db_items')) =>
                /\ Lookup(db_items', i).created_at
                        = Lookup(items_storage', i).created_at
                /\ Lookup(db_items', i).updated_at
                        = Lookup(items_storage', i).updated_at

BothOnly == UNCHANGED <<created, loop_vars, app_vars>>

NextBoth ==
    \/ /\ client = None
       /\ connect_to_mongo("ok")
       /\ UNCHANGED <<mem_vars, loop_vars, app_vars>>
    \/ \E item \in BothCreateBodies :
            Connected /\ create_item(item) /\ create_db_item(item)
                /\ SameClock /\ BothOnly
    \/ \E req \in OneList :
            Connected /\ get_items(req) /\ get_db_items(req) /\ SameClock /\ BothOnly
    \/ \E item_id \in PathIds :
            Connected /\ get_item_request(item_id) /\ get_db_item(item_id)
                /\ SameClock /\ BothOnly
    \/ \E item_id \in PathIds, item_update \in BothUpdateBodies :
            Connected /\ update_item_request(item_id, item_update)
                /\ update_db_item(item_id, item_update) /\ SameClock /\ BothOnly
    \/ \E item_id \in PathIds :
            Connected /\ delete_item_request(item_id) /\ delete_db_item(item_id)
                /\ SameClock /\ BothOnly
    \/ \E req \in BothSearches :
            Connected /\ search_items(req) /\ search_db_items(req)
                /\ SameClock /\ BothOnly

SpecBoth == Init /\ [][NextBoth]_vars

\* C17: whatever requests were sent to both variants, the in-memory router
\* and the document-store router answer the last one with the same status
\* and, when they return an entity or a page, with the same fields (the
\* identifiers of the two variants correspond in the order of creation).
C17_VariantsAnswerAlike ==
    (db_resp.op = resp.op /\ resp.op # "start") =>
        /\ db_resp.status = resp.status
        /\ db_resp.body = resp.body

(***************************************************************************)
(* Concurrent requests.  The server runs every handler as a coroutine on   *)
(* one event loop: a coroutine that was started runs until it awaits or    *)
(* returns, and only then does the loop run another one.  The handlers of  *)
(* routes/items.py contain no await.  A handler is split into the steps of *)
(* its body; running names the coroutine that holds the loop.              *)
(***************************************************************************)
\* variant: handlers declared with def run in worker threads, which the
\* interpreter may switch between any two steps
CanRunInThread(t) == TRUE

\* the event loop starts or resumes coroutine t only when no other
\* coroutine is between two of its steps
CanRun(t) == running \subseteq {t}

\* coroutine t goes from one step to the next without awaiting
Continue(t, pc, local) ==
    /\ tasks' = [tasks EXCEPT ![t].pc = pc, ![t].local = local]
    /\ running' = {t}

\* coroutine t returns or raises: the response goes out with this status and
\* the arguments and local variables of the handler are gone
Finish(t, status) ==
    /\ tasks' = [tasks EXCEPT
                    ![t] = Task(tasks[t].op, NoId, NoReq, "done", NoBody, status)]
    /\ running' = running \ {t}

\* a request arrives on the first free connection; a body that fails
\* validation is answered 422 without a handler being called
Arrive(t, op, id, body, valid) ==
    /\ tasks[t].pc = "done"
    /\ \A u \in Tasks : tasks[u].pc = "done" => t <= u
    /\ tasks' = [tasks EXCEPT ![t] =
                    IF valid THEN Task(op, id, body, "ready", NoBody, 0)
                    ELSE Task(op, NoId, NoReq, "done", NoBody, 422)]
    /\ UNCHANGED running

\* bodies of the concurrent requests: a POST, a PUT of both fields and a PUT
\* that fails validation
LoopCreateBodies == {Body(NameAb, Unset)}
LoopUpdateBodies == {Body(NameB, DescD), Body(<<>>, Unset)}

\* the id the concurrent PUT and DELETE requests name: the first one handed
\* out (the handlers treat every id alike)
LoopIds == {i \in Ids : \A j \in Ids : i <= j}

arrive_item_request(t) ==
    /\ \/ \E item \in LoopCreateBodies :
            Arrive(t, "create", NoId, item, ValidItemCreate(item))
       \/ \E item_id \in LoopIds, item_update \in LoopUpdateBodies :
            Arrive(t, "update", item_id, item_update, ValidItemUpdate(item_update))
       \/ \E item_id \in LoopIds : Arrive(t, "delete", item_id, NoReq, TRUE)
    /\ UNCHANGED <<items_storage, clock, issued, deleted, resp>>

\* create_item: the Item is built, stored and returned
create_item_step(t) ==
    /\ tasks[t].op = "create" /\ tasks[t].pc = "ready"
    /\ CanRun(t)
    /\ \E id \in Uuid4Choices :
       \E t1 \in clock .. MaxTime :
       \E t2 \in t1 .. MaxTime :
            /\ issued' = issued \cup {id}
            /\ clock' = t2
            /\ items_storage' =
                    StoreItem(items_storage, id,
                              [id |-> id,
                               name |-> tasks[t].body.name,
                               description |-> DescriptionOf(tasks[t].body),
                               created_at |-> t1,
                               updated_at |-> t2])
    /\ Finish(t, 201)
    /\ UNCHANGED <<deleted, resp>>

\* the fields update_data still holds for the setattr loop, in the order
\* ItemUpdate declares them
FieldsLeft(item_update, done) ==
    SelectSeq(<<"name", "description">>,
              LAMBDA f : f \in UpdateData(item_update) /\ f \notin done)

\* setattr(existing_item, field, value) ; existing_item is the stored object
SetField(store, item_id, field, value) ==
    IF item_id \notin StoredIds(store) THEN store
    ELSE [store EXCEPT ![Pos(store, item_id)][field] = value]

\* update_item, step by step: the existence check, the test for an empty
\* body, one setattr per field, the timestamp, the store, the response
update_item_step(t) ==
    LET item_id == tasks[t].id
        item_update == tasks[t].body
        pc == tasks[t].pc
    IN  /\ tasks[t].op = "update" /\ pc # "done"
        /\ CanRun(t)
        /\ CASE pc = "ready" ->
                    /\ IF item_id \notin StoredIds(items_storage)
                       THEN Finish(t, 404)
                       ELSE Continue(t, "checked", {})
                    /\ UNCHANGED <<items_storage, clock>>
             [] pc = "checked" ->
                    /\ IF UpdateData(item_update) = {}
                       THEN Finish(t, 400)
                       ELSE Continue(t, "setattr", {})
                    /\ UNCHANGED <<items_storage, clock>>
             [] pc = "setattr" ->
                    LET left == FieldsLeft(item_update, tasks[t].local)
                    IN  IF left = <<>>
                        THEN /\ \E now \in clock .. MaxTime :
                                    /\ clock' = now
                                    /\ items_storage' =
                                            SetField(items_storage, item_id,
                                                     "updated_at", now)
                             /\ Continue(t, "stamped", {})
                        ELSE /\ items_storage' =
                                    SetField(items_storage, item_id, left[1],
                                             item_update[left[1]])
                             /\ Continue(t, "setattr",
                                         tasks[t].local \cup {left[1]})
                             /\ UNCHANGED clock
             [] pc = "stamped" ->
                    \* items_storage[item_id] = existing_item, then the response
                    /\ Finish(t, IF item_id \in StoredIds(items_storage)
                                    /\ ItemResponseOk(Lookup(items_storage, item_id))
                                 THEN 200 ELSE 500)
                    /\ UNCHANGED <<items_storage, clock>>
        /\ UNCHANGED <<issued, deleted, resp>>

\* delete_item: the existence check, then del items_storage[item_id]
delete_item_step(t) ==
    LET item_id == tasks[t].id
    IN  /\ tasks[t].op = "delete" /\ tasks[t].pc # "done"
        /\ CanRun(t)
        /\ IF tasks[t].pc = "ready"
           THEN /\ IF item_id \notin StoredIds(items_storage)
                   THEN Finish(t, 404)
                   ELSE Continue(t, "checked", {})
                /\ UNCHANGED <<items_storage, deleted>>
           ELSE IF item_id \in StoredIds(items_storage)
                THEN /\ items_storage' = DelItem(items_storage, item_id)
                     /\ deleted' = deleted \cup {item_id}
                     /\ Finish(t, 204)
                \* KeyError, caught by except Exception
                ELSE /\ Finish(t, 500)
                     /\ UNCHANGED <<items_storage, deleted>>
        /\ UNCHANGED <<clock, issued, resp>>

LoopOnly == UNCHANGED <<created, db_vars, app_vars>>

NextLoop ==
    \/ \E t \in Tasks : arrive_item_request(t) /\ LoopOnly
    \/ \E t \in Tasks : create_item_step(t) /\ LoopOnly
    \/ \E t \in Tasks : update_item_step(t) /\ LoopOnly
    \/ \E t \in Tasks : delete_item_step(t) /\ LoopOnly

SpecLoop == Init /\ [][NextLoop]_vars

\* update_item has passed its existence check and has not answered yet
InUpdate(task) ==
    task.op = "update" /\ task.pc \in {"checked", "setattr", "stamped"}

\* another update_item of the same id waits to be started
WaitsBehind(t, u) ==
    /\ t # u
    /\ InUpdate(tasks[t])
    /\ tasks[u].op = "update"
    /\ tasks[u].pc = "ready"
    /\ tasks[u].id = tasks[t].id

\* C20 as claimed: two concurrent updates of the same id can interleave;
\* whenever one update_item is between its existence check and its response
\* and another update_item of the same id waits, the waiting one can take
\* its next step.
C20_ConcurrentUpdatesCanInterleave ==
    \A t, u \in Tasks : WaitsBehind(t, u) => ENABLED update_item_step(u)

\* C20 as amended: the steps of an update_item are never interrupted; while
\* one update_item is between its existence check and its response, no other
\* handler takes a step and no other request changes the storage.
C20_UpdateItemRunsToCompletion ==
    [][\A t \in Tasks :
            InUpdate(tasks[t]) =>
                \A u \in Tasks \ {t} :
                    tasks[u].pc = "done" \/ tasks'[u] = tasks[u]
      ]_vars

\* one update_item has written the name of the item while another
\* update_item of the same id waits
C20_Witness ==
    \E t, u \in Tasks :
        /\ WaitsBehind(t, u)
        /\ tasks[t].pc = "setattr"
        /\ "name" \in tasks[t].local

(***************************************************************************)
(* Concurrent requests to the document-store router.  Every operation on   *)
(* the collection is awaited: the coroutine gives up the event loop, the   *)
(* store carries the operation out at once and alone, and the coroutine    *)
(* goes on with the result when the loop resumes it.  Between two awaits   *)
(* of one handler the loop may run the other handlers.                     *)
(***************************************************************************)
\* coroutine t awaits an operation: it keeps the result and gives up the loop
Await(t, pc, local) ==
    /\ tasks' = [tasks EXCEPT ![t].pc = pc, ![t].local = local]
    /\ running' = running \ {t}

arrive_db_item_request(t) ==
    /\ Connected
    /\ \/ \E item \in LoopCreateBodies :
            Arrive(t, "create", NoId, item, ValidDBItemCreate(item))
       \/ \E item_id \in LoopIds : Arrive(t, "delete", item_id, NoReq, TRUE)
    /\ UNCHANGED db_vars

\* create_db_item: await insert_one, then await find_one and the response
create_db_item_step(t) ==
    /\ tasks[t].op = "create" /\ tasks[t].pc # "done"
    /\ CanRun(t)
    /\ IF tasks[t].pc = "ready"
       THEN \E id \in ObjectIdChoices :
            \E t1 \in db_clock .. MaxTime :
            \E t2 \in t1 .. MaxTime :
                /\ db_issued' = db_issued \cup {id}
                /\ db_clock' = t2
                /\ db_items' =
                        Append(db_items,
                               [id |-> id,
                                name |-> tasks[t].body.name,
                                description |-> DescriptionOf(tasks[t].body),
                                created_at |-> t1,
                                updated_at |-> t2])
                /\ Await(t, "inserted", {id})
       ELSE \* inserted_item is None when the document is gone: TypeError,
            \* caught by except Exception
            /\ Finish(t, IF tasks[t].local \subseteq StoredIds(db_items)
                         THEN 201 ELSE 500)
            /\ UNCHANGED <<db_items, db_clock, db_issued>>
    /\ UNCHANGED <<client, database, db_resp>>

\* delete_db_item: await find_one, then the test for None, await delete_one
\* and the test of deleted_count
delete_db_item_step(t) ==
    LET item_id == tasks[t].id
    IN  /\ tasks[t].op = "delete" /\ tasks[t].pc # "done"
        /\ CanRun(t)
        /\ IF tasks[t].pc = "ready"
           THEN \* existing_item = await collection.find_one({"_id": object_id})
                /\ Await(t, "found", {item_id} \cap StoredIds(db_items))
                /\ UNCHANGED db_items
           ELSE IF tasks[t].local = {}
           THEN /\ Finish(t, 404)
                /\ UNCHANGED db_items
           ELSE \* result = await collection.delete_one({"_id": object_id})
                LET deleted_count ==
                        IF item_id \in StoredIds(db_items) THEN 1 ELSE 0
                IN  /\ db_items' = IF deleted_count = 1
                                   THEN DelItem(db_items, item_id)
                                   ELSE db_items
                    /\ Finish(t, IF deleted_count = 0 THEN 500 ELSE 204)
        /\ UNCHANGED <<client, database, db_clock, db_issued, db_resp>>

DbLoopOnly == UNCHANGED <<mem_vars, app_vars>>

NextDbLoop ==
    \/ /\ client = None
       /\ connect_to_mongo("ok")
       /\ UNCHANGED <<mem_vars, loop_vars, app_vars>>
    \/ \E t \in Tasks : arrive_db_item_request(t) /\ DbLoopOnly
    \/ \E t \in Tasks : create_db_item_step(t) /\ DbLoopOnly
    \/ \E t \in Tasks : delete_db_item_step(t) /\ DbLoopOnly

SpecDbLoop == Init /\ [][NextDbLoop]_vars

\* C16: in both variants and under every interleaving, a DELETE with a
\* well-formed id that has been answered was answered 204 or 404, never 500.
C16_DeleteAnswers204Or404 ==
    \A t \in Tasks :
        (tasks[t].op = "delete" /\ tasks[t].pc = "done") =>
            tasks[t].status \in {204, 404}

(***************************************************************************)
(* main.py: the application.  The server runs the startup hooks, serves    *)
(* requests of the routers main.py includes (root and items) and stops.    *)
(* startup_event is the only hook and its body is a docstring and a        *)
(* comment; no shutdown hook is registered.  reachable says whether the    *)
(* configured MongoDB server would answer a ping; nothing in the           *)
(* application reads it.                                                   *)
(***************************************************************************)
InitApp ==
    /\ InitMemory
    /\ InitDb
    /\ InitLoop
    /\ phase = "created"
    /\ reachable \in BOOLEAN
    /\ InitConfigBare

\* @app.on_event("startup"): the body holds no statement
startup_event ==
    /\ phase = "created"
    /\ phase' = "serving"
    /\ UNCHANGED <<mem_vars, db_vars, loop_vars, reachable, config_vars>>

\* the server stops: there is no @app.on_event("shutdown") to run
shutdown ==
    /\ phase = "serving"
    /\ phase' = "stopped"
    /\ UNCHANGED <<mem_vars, db_vars, loop_vars, reachable, config_vars>>

Serving == phase = "serving" /\ MemoryOnly

NextApp ==
    \/ startup_event
    \/ \E item \in CreateBodies : create_item(item) /\ Serving
    \/ \E req \in OneList : get_items(req) /\ Serving
    \/ \E item_id \in Ids : get_item(item_id) /\ Serving
    \/ \E item_id \in Ids, item_update \in UpdateBodies :
            update_item(item_id, item_update) /\ Serving
    \/ \E item_id \in Ids : delete_item(item_id) /\ Serving
    \/ \E req \in OneSearch : search_items(req) /\ Serving
    \/ shutdown

SpecApp == InitApp /\ [][NextApp]_vars

\* C18: connect_to_mongo has completed before the first request is served,
\* and once the application has stopped close_mongo_connection has run.
C18_ConnectedWhileServingClosedAfter ==
    /\ resp.op # "start" => (client = Open /\ database = Handle)
    /\ phase = "stopped" => client = Closed

\* C19: when the initial connection to the database cannot be established,
\* startup is aborted: the application never gets to serve.
C19_FailedConnectionAbortsStartup ==
    ~reachable => phase = "created"

(***************************************************************************)
(* Order of the checks of an update, storage after a failed request.       *)
(***************************************************************************)
\* C21: a PUT with a well-formed id and an empty field set answers 400
\* whether or not the id is stored, in both variants.
C21_EmptyUpdateAnswers400 ==
    /\ (resp.op = "update" /\ resp.id \in Ids /\ resp.req \in UpdateBodies
            /\ UpdateData(resp.req) = {}) => resp.status = 400
    /\ (db_resp.op = "update" /\ db_resp.id \in Ids /\ db_resp.req \in UpdateBodies
            /\ UpdateData(db_resp.req) = {}) => db_resp.status = 400

\* C22: a request answered with an error status (4xx or 5xx) leaves the
\* storage of its variant exactly as it was before the request.
C22_ErrorLeavesStorageUnchanged ==
    [][/\ resp'.status >= 400 => items_storage' = items_storage
       /\ db_resp'.status >= 400 => db_items' = db_items]_vars

(***************************************************************************)
(* Search of the document store.                                           *)
(***************************************************************************)
\* the ids of the documents whose name contains q as a literal substring
\* when case is ignored
LiteralMatches(docs, q) ==
    {docs[i].id : i \in {k \in 1 .. Len(docs) : ContainsIgnoringCase(docs[k].name, q)}}

\* C23: a document-store search answered 200 counts and (on a page that
\* holds them all) returns exactly the documents whose name contains q as a
\* case-insensitive literal substring, whatever characters q holds.
C23_DbSearchIsLiteralSubstring ==
    (db_resp.op = "search" /\ db_resp.status = 200) =>
        /\ db_resp.body.total_count
                = Cardinality(LiteralMatches(db_items, db_resp.req.q))
        /\ Len(db_items) <= db_resp.req.size =>
                {db_resp.body.items[i].id : i \in 1 .. Len(db_resp.body.items)}
                    = LiteralMatches(db_items, db_resp.req.q)

(***************************************************************************)
(* Concurrent updates of the document store: update_db_item awaits         *)
(* find_one, update_one and find_one again.                                *)
(***************************************************************************)
\* bodies of the concurrent PUT requests: the name the item was created
\* with, and another name
DbLoopUpdateBodies == {Body(NameAb, Unset), Body(NameB, Unset)}

arrive_db_update_request(t) ==
    /\ Connected
    /\ \/ \E item \in LoopCreateBodies :
            Arrive(t, "create", NoId, item, ValidDBItemCreate(item))
       \/ \E item_id \in LoopIds, item_update \in DbLoopUpdateBodies :
            Arrive(t, "update", item_id, item_update,
                   ValidDBItemUpdate(item_update))
       \/ \E item_id \in LoopIds : Arrive(t, "delete", item_id, NoReq, TRUE)
    /\ UNCHANGED db_vars

\* the answer of update_db_item goes out
FinishUpdate(t, status, body) ==
    /\ Finish(t, status)
    /\ db_resp' = Response("update", status, tasks[t].id, tasks[t].body, body)

update_db_item_step(t) ==
    LET item_id == tasks[t].id
        item_update == tasks[t].body
        stored == item_id \in StoredIds(db_items)
    IN  /\ tasks[t].op = "update" /\ tasks[t].pc # "done"
        /\ CanRun(t)
        /\ IF tasks[t].pc = "ready"
           THEN \* existing_item = await collection.find_one({"_id": object_id})
                /\ Await(t, "found", {item_id} \cap StoredIds(db_items))
                /\ UNCHANGED <<db_items, db_clock, db_resp>>
           ELSE IF tasks[t].pc = "found"
           THEN IF tasks[t].local = {}
                THEN /\ FinishUpdate(t, 404, NoBody)
                     /\ UNCHANGED <<db_items, db_clock>>
                ELSE IF UpdateData(item_update) = {}
                THEN /\ FinishUpdate(t, 400, NoBody)
                     /\ UNCHANGED <<db_items, db_clock>>
                ELSE \* update_data["updated_at"] = datetime.utcnow()
                     \* result = await collection.update_one(...)
                     \E now \in db_clock .. MaxTime :
                        LET updated_item ==
                                SetDocument(Lookup(db_items, item_id),
                                            item_update, now)
                            \* no document matches, or no value changes
                            modified_count ==
                                IF stored /\ updated_item # Lookup(db_items, item_id)
                                THEN 1 ELSE 0
                        IN  /\ db_clock' = now
                            /\ db_items' = IF modified_count = 1
                                           THEN StoreItem(db_items, item_id,
                                                          updated_item)
                                           ELSE db_items
                            /\ Await(t, "updated", {modified_count})
                            /\ UNCHANGED db_resp
           ELSE \* if result.modified_count == 0: 500
                \* updated_item = await collection.find_one({"_id": object_id})
                \* subscripting None raises TypeError: 500
                /\ IF tasks[t].local = {0} \/ ~stored
                      \/ ~DBItemResponseOk(Lookup(db_items, item_id))
                   THEN FinishUpdate(t, 500, NoBody)
                   ELSE FinishUpdate(t, 200, Lookup(db_items, item_id))
                /\ UNCHANGED <<db_items, db_clock>>
        /\ UNCHANGED <<client, database, db_issued>>

NextDbUpdate ==
    \/ /\ client = None
       /\ connect_to_mongo("ok")
       /\ UNCHANGED <<mem_vars, loop_vars, app_vars>>
    \/ \E t \in Tasks : arrive_db_update_request(t) /\ DbLoopOnly
    \/ \E t \in Tasks : create_db_item_step(t) /\ DbLoopOnly
    \/ \E t \in Tasks : update_db_item_step(t) /\ DbLoopOnly
    \/ \E t \in Tasks : delete_db_item_step(t) /\ DbLoopOnly

SpecDbUpdate == Init /\ [][NextDbUpdate]_vars

\* C24: in the document store, under every interleaving, a PUT with a
\* well-formed id and a non-empty valid body is answered 200 or 404, and a
\* 200 carries the values the request supplied.
C24_DbUpdateAnswers200Or404 ==
    (db_resp.op = "update" /\ db_resp.req \in DbLoopUpdateBodies) =>
        /\ db_resp.status \in {200, 404}
        /\ db_resp.status = 200 =>
                \A field \in UpdateData(db_resp.req) :
                    db_resp.body[field] = db_resp.req[field]

(***************************************************************************)
(* Concurrent list and search requests of the document store: the handlers *)
(* await count_documents, then the cursor's to_list.                       *)
(***************************************************************************)
\* the concurrent list and search requests: the first page, of one item
LoopListQueries == {Query(1, 1)}
LoopSearches == {SearchQuery(NameB, 1, 1)}

arrive_db_list_request(t) ==
    /\ Connected
    /\ \/ \E item \in LoopCreateBodies :
            Arrive(t, "create", NoId, item, ValidDBItemCreate(item))
       \/ \E item_id \in LoopIds : Arrive(t, "delete", item_id, NoReq, TRUE)
       \/ \E req \in LoopListQueries :
            Arrive(t, "list", NoId, req, ValidPaging(req.page, req.size))
       \/ \E req \in LoopSearches :
            Arrive(t, "search", NoId, req,
                   ValidQ(req.q) /\ ValidPaging(req.page, req.size))
    /\ UNCHANGED db_vars

\* the page built from the count the first await returned and the documents
\* the second one returned
DbPageOf(op, req, total_count, sorted) ==
    LET items == SkipLimit(sorted, req.page, req.size)
    IN  IF \A i \in 1 .. Len(items) : DBItemResponseOk(items[i])
        THEN Response(op, 200, NoId, req,
                      PaginatedItems(items, total_count, req.page, req.size,
                                     (total_count + req.size - 1) \div req.size))
        ELSE Response(op, 500, NoId, req, NoBody)

\* the two awaits of get_db_items and search_db_items over the documents the
\* query selects
DbPageStep(t, op, selected) ==
    /\ tasks[t].op = op /\ tasks[t].pc # "done"
    /\ CanRun(t)
    /\ IF tasks[t].pc = "ready"
       THEN \* total_count = await collection.count_documents(query)
            /\ Await(t, "counted", {Len(selected)})
            /\ UNCHANGED db_resp
       ELSE \* items = await cursor.to_list(length=size)
            \E sorted \in SortedOrders(selected) :
            \E total_count \in tasks[t].local :
                /\ db_resp' = DbPageOf(op, tasks[t].body, total_count, sorted)
                /\ Finish(t, db_resp'.status)
    /\ UNCHANGED <<client, database, db_items, db_clock, db_issued>>

get_db_items_step(t) == DbPageStep(t, "list", db_items)

search_db_items_step(t) ==
    DbPageStep(t, "search",
               IF tasks[t].op = "search"
               THEN RegexSelected(db_items, tasks[t].body.q) ELSE <<>>)

NextDbList ==
    \/ /\ client = None
       /\ connect_to_mongo("ok")
       /\ UNCHANGED <<mem_vars, loop_vars, app_vars>>
    \/ \E t \in Tasks : arrive_db_list_request(t) /\ DbLoopOnly
    \/ \E t \in Tasks : create_db_item_step(t) /\ DbLoopOnly
    \/ \E t \in Tasks : delete_db_item_step(t) /\ DbLoopOnly
    \/ \E t \in Tasks : get_db_items_step(t) /\ DbLoopOnly
    \/ \E t \in Tasks : search_db_items_step(t) /\ DbLoopOnly

SpecDbList == Init /\ [][NextDbList]_vars

\* C25: a list or search response answered 200 holds
\* min(size, max(0, total_count - (page-1)*size)) items and
\* total_pages = ceil(total_count/size), under every interleaving with
\* creates and deletes.
C25_PageIsOneSnapshot ==
    (db_resp.op \in {"list", "search"} /\ db_resp.status = 200) =>
        /\ Len(db_resp.body.items)
                = Min(db_resp.body.size,
                      Max(0, db_resp.body.total_count
                                - (db_resp.body.page - 1) * db_resp.body.size))
        /\ db_resp.body.total_pages
                = CeilDiv(db_resp.body.total_count, db_resp.body.size)

(***************************************************************************)
(* utils/mongo.py called in any order, with the handlers that go through   *)
(* get_collection.                                                         *)
(***************************************************************************)
MongoOnly == UNCHANGED <<mem_vars, loop_vars, app_vars>>

NextMongo ==
    \/ \E ping \in PingOutcomes : connect_to_mongo(ping) /\ MongoOnly
    \/ close_mongo_connection /\ MongoOnly
    \/ get_database /\ MongoOnly
    \/ get_collection /\ MongoOnly
    \/ \E item \in LoopCreateBodies : create_db_item(item) /\ MongoOnly
    \/ \E item_id \in Ids : get_db_item(item_id) /\ MongoOnly
    \/ \E item_id \in Ids : delete_db_item(item_id) /\ MongoOnly

SpecMongo == Init /\ [][NextMongo]_vars

\* C26: get_database and get_collection raise RuntimeError while no
\* connect_to_mongo has succeeded (database is unset) and while the client
\* is the one close_mongo_connection closed (no connect has run since).
C26_HandleOnlyWhileConnectionOpen ==
    (database = None \/ client = Closed) => GetDatabaseRaises = "RuntimeError"

(***************************************************************************)
(* core/config.py: the import builds the settings instance, then prints    *)
(* every field with the label of its source.                               *)
(***************************************************************************)
\* the module is about to be imported, in any environment
InitConfig ==
    /\ InitMemory
    /\ InitDb
    /\ InitLoop
    /\ phase = "created"
    /\ reachable = TRUE
    /\ os_env \in SUBSET Fields
    /\ env_files \in [cwd : EnvFiles, parent : EnvFiles]
    /\ settings = NotLoaded
    /\ printed = NotPrinted

\* what BaseSettings reads for a field: the environment variable, else the
\* entry of env_file=".env" (a path relative to the working directory),
\* else the default of the class
SettingsValue(field_name) ==
    IF field_name \in os_env THEN "os"
    ELSE IF env_files.cwd.exists /\ field_name \in env_files.cwd.keys THEN "cwd"
    ELSE "default"

\* settings = Settings()
Settings ==
    /\ settings = NotLoaded
    /\ settings' = [f \in Fields |-> SettingsValue(f)]
    /\ UNCHANGED <<os_env, env_files, printed>>

\* env_file_data: the names of Path(".env") when it exists, else of the
\* file find_dotenv() finds
EnvFileData ==
    IF env_files.cwd.exists THEN env_files.cwd.keys
    ELSE IF env_files.parent.exists THEN env_files.parent.keys
    ELSE {}

\* the label print_config_values determines for a field
Source(field_name) ==
    IF field_name \in os_env THEN "[OS]"
    ELSE IF field_name \in EnvFileData THEN "[.env]"
    ELSE "[default]"

print_config_values ==
    /\ settings # NotLoaded
    /\ printed = NotPrinted
    /\ printed' = [f \in Fields |-> Source(f)]
    /\ UNCHANGED <<os_env, env_files, settings>>

ConfigOnly == UNCHANGED <<mem_vars, db_vars, loop_vars, phase, reachable>>

NextConfig ==
    \/ Settings /\ ConfigOnly
    \/ print_config_values /\ ConfigOnly

SpecConfig == InitConfig /\ [][NextConfig]_vars

\* C27: the label printed for a setting names the source that supplied the
\* value the settings instance holds: [OS] the environment variable, [.env]
\* a .env file, [default] the default.
C27_LabelNamesTheSource ==
    \A f \in Fields :
        /\ printed[f] = "[OS]" => settings[f] = "os"
        /\ printed[f] = "[.env]" => settings[f] \in {"cwd", "parent"}
        /\ printed[f] = "[default]" => settings[f] = "default"

====
